---- MODULE Spec2Model ----
(***************************************************************************)
(* A model of hrequests/response.py: the single request path               *)
(* (ProcessResponse), the batch path (ProcessResponsePool), the Response   *)
(* record with its accessors, build_response and parse_header_links.       *)
(*                                                                         *)
(* The module holds one specification per component:                       *)
(*   SpecPool    ProcessResponsePool.execute_pool, statement by statement  *)
(*   SpecSingle  ProcessResponse.__init__ / send / execute_request         *)
(*   SpecBody    build_response, Response.__post_init__, content, text     *)
(*   SpecLinks   parse_header_links                                        *)
(*   SpecHtml    Response.html / find / find_all                           *)
(* Each specification leaves the variables of the other components at      *)
(* their idle values.                                                      *)
(***************************************************************************)
EXTENDS Integers, Sequences, FiniteSets, TLC

VARIABLES
    \* ---- ProcessResponsePool.execute_pool
    pool,             \* self.pool: the list of ProcessResponse objects
    full_headers,     \* proc.full_headers of every ProcessResponse object
    pc,               \* position of the call inside execute_pool
    proc,             \* the loop variable `proc` (Unbound before the first pass)
    idx,              \* how many elements the running for / zip has consumed
    values,           \* the local list `values`
    builds,           \* history: the build_request calls made, in order
    posts,            \* history: the posts made to the executor's server
    response_object,  \* the decoded reply
    result,           \* the list being built by the final comprehension
    exc,              \* the exception execute_pool raised, or None
    fault,            \* history: the error a collaborator or statement raised
    \* ---- ProcessResponse
    sproc,            \* the ProcessResponse object under construction / built
    soutcome,         \* what the last operation on it did
    srecords,         \* history: every record returned by execute_request
    scalls,           \* history: collaborator calls made by the current object
    \* ---- Response body
    res,              \* the raw result handed to build_response
    resp,             \* the Response built from it
    view,             \* the last accessor results
    \* ---- parse_header_links
    header,           \* the Link header value
    links,            \* the list parse_header_links returned
    \* ---- Response.html
    hcache,           \* self.__dict__.get('_html')
    hbuilt,           \* history: HTML objects constructed so far
    hlog              \* history: accesses made, with the object each returned

poolVars   == <<pool, full_headers, pc, proc, idx, values, builds, posts,
                response_object, result, exc, fault>>
singleVars == <<sproc, soutcome, srecords, scalls>>
bodyVars   == <<res, resp, view>>
linkVars   == <<header, links>>
htmlVars   == <<hcache, hbuilt, hlog>>
vars       == <<poolVars, singleVars, bodyVars, linkVars, htmlVars>>

None    == "None"
Unbound == "<unbound>"
NoExc   == [kind |-> None, msg |-> None, cause |-> None]   \* nothing raised
NoFault == [at |-> None, kind |-> None]                    \* nothing failed

\* The smaller of two numbers.
Min(a, b) == IF a <= b THEN a ELSE b

(***************************************************************************)
(* Idle values of each component.                                          *)
(***************************************************************************)
PoolIdle ==
    /\ pool = << >> /\ full_headers = << >> /\ pc = "idle" /\ proc = Unbound
    /\ idx = 0 /\ values = << >> /\ builds = << >> /\ posts = << >>
    /\ response_object = None /\ result = << >> /\ exc = NoExc
    /\ fault = NoFault
SingleIdle ==
    /\ sproc = None /\ soutcome = None /\ srecords = << >> /\ scalls = << >>
BodyIdle == res = None /\ resp = None /\ view = None
LinkIdle == header = << >> /\ links = [called |-> FALSE, list |-> << >>]
HtmlIdle == hcache = 0 /\ hbuilt = 0 /\ hlog = << >>

(***************************************************************************)
(* ProcessResponsePool.execute_pool                                        *)
(***************************************************************************)
\* Bounds of the batch model.
MaxPool    == 3    \* longest pool
ExtraReply == 1    \* how much longer than the pool a decoded reply may be

\* The ProcessResponse objects a pool may hold.  p1 and p2 are equal
\* descriptors (same url, same session); p3 differs in both.  One object may
\* also occur in a pool more than once.
Procs == {"p1", "p2", "p3"}
ProcUrl(p)     == IF p = "p3" THEN "http://b" ELSE "http://a"
ProcSession(p) == IF p = "p3" THEN "s2" ELSE "s1"
Data == {"r1", "r2"}                   \* raw results the executor may send
PostErrors  == {"IOError", "ClientException"}
LoadsErrors == {"JSONDecodeError"}

SeqsUpTo(S, n) == UNION {[1..k -> S] : k \in 0..n}

\* proc.session.build_request(...): a collaborator.  The header set it
\* resolves depends on session state, so every call on a session gives a
\* header set of its own: the session and the number of the call on it.
SessionBuilds(s) == Cardinality({k \in 1..Len(builds) : ProcSession(builds[k].proc) = s})
ResolvedHeaders(p) == <<ProcSession(p), SessionBuilds(ProcSession(p)) + 1>>
Payload(p, h) == [method |-> "GET", url |-> ProcUrl(p), headers |-> h, of |-> p]

\* orjson.dumps(values): the wire form of the list of payloads.
dumps(v) == [json |-> v]

\* proc.session.build_response(proc.url, proc.full_headers, data)
SessionBuildResponse(p, url, hdrs, data) ==
    [by |-> ProcSession(p), url |-> url, headers |-> hdrs, data |-> data]

\* A slip in the wrapping: the original error is not kept as the cause.
ConnectionErrorNoCause(e) ==
    [kind |-> "ClientException", msg |-> "Connection error", cause |-> None]

\* ClientException('Connection error') from e
ConnectionError(e) ==
    [kind |-> "ClientException", msg |-> "Connection error", cause |-> e]

InitPool ==
    /\ pool \in SeqsUpTo(Procs, MaxPool)
    /\ full_headers = [p \in Procs |-> None]
    /\ pc = "for" /\ proc = Unbound /\ idx = 0
    /\ values = << >> /\ builds = << >> /\ posts = << >>
    /\ response_object = None /\ result = << >> /\ exc = NoExc
    /\ fault = NoFault
    /\ SingleIdle /\ BodyIdle /\ LinkIdle /\ HtmlIdle

\* One pass of `for proc in self.pool` (lines 92-103).
BuildRequest ==
    /\ pc = "for" /\ idx < Len(pool)
    /\ LET p == pool[idx + 1]
           h == ResolvedHeaders(p)
       IN /\ proc' = p
          /\ idx' = idx + 1
          /\ builds' = Append(builds, [proc |-> p, headers |-> h])
          /\ full_headers' = [full_headers EXCEPT ![p] = h]
          /\ values' = Append(values, Payload(p, h))
    /\ UNCHANGED <<pool, pc, posts, response_object, result, exc>>
    /\ UNCHANGED fault
    /\ UNCHANGED <<singleVars, bodyVars, linkVars, htmlVars>>

\* build_request raises: the loop is outside the try, the error propagates.
BuildRequestRaises ==
    /\ pc = "for" /\ idx < Len(pool)
    /\ proc' = pool[idx + 1]
    /\ idx' = idx + 1
    /\ pc' = "raised"
    /\ exc' = [kind |-> "ClientException", msg |-> "build_request", cause |-> None]
    /\ UNCHANGED <<pool, full_headers, values, builds, posts, response_object, result>>
    /\ fault' = [at |-> "build_request", kind |-> "ClientException"]
    /\ UNCHANGED <<singleVars, bodyVars, linkVars, htmlVars>>

\* The for loop is exhausted: control enters the try block.
EndFor ==
    /\ pc = "for" /\ idx = Len(pool)
    /\ pc' = "try"
    /\ UNCHANGED <<pool, full_headers, proc, idx, values, builds, posts,
                   response_object, result, exc>>
    /\ UNCHANGED fault
    /\ UNCHANGED <<singleVars, bodyVars, linkVars, htmlVars>>

\* Line 107 with `proc` never bound (empty pool): UnboundLocalError, raised
\* inside the try and so caught by `except Exception`.
PostUnbound ==
    /\ pc = "try" /\ proc = Unbound
    /\ pc' = "raised"
    /\ exc' = ConnectionError("UnboundLocalError")
    /\ UNCHANGED <<pool, full_headers, proc, idx, values, builds, posts,
                   response_object, result>>
    /\ fault' = [at |-> "proc", kind |-> "UnboundLocalError"]
    /\ UNCHANGED <<singleVars, bodyVars, linkVars, htmlVars>>

\* proc.session.server.post(..., body=dumps(values)) answers.
PostOk ==
    /\ pc = "try" /\ proc # Unbound
    /\ posts' = Append(posts, [server |-> ProcSession(proc), body |-> dumps(values)])
    /\ pc' = "loads"
    /\ UNCHANGED <<pool, full_headers, proc, idx, values, builds,
                   response_object, result, exc>>
    /\ UNCHANGED fault
    /\ UNCHANGED <<singleVars, bodyVars, linkVars, htmlVars>>

\* The post is made and fails.
PostRaises ==
    /\ pc = "try" /\ proc # Unbound
    /\ \E e \in PostErrors :
          /\ fault' = [at |-> "post", kind |-> e]
          /\ exc' = ConnectionError(e)
    /\ posts' = Append(posts, [server |-> ProcSession(proc), body |-> dumps(values)])
    /\ pc' = "raised"
    /\ UNCHANGED <<pool, full_headers, proc, idx, values, builds,
                   response_object, result>>
    /\ UNCHANGED <<singleVars, bodyVars, linkVars, htmlVars>>

\* loads(resp.read()) gives the decoded list: any length up to
\* len(pool) + ExtraReply, any raw results.
LoadsOk ==
    /\ pc = "loads"
    /\ \E r \in SeqsUpTo(Data, Len(pool) + ExtraReply) :
          response_object' = r
    /\ pc' = "zip" /\ idx' = 0
    /\ UNCHANGED <<pool, full_headers, proc, values, builds, posts, result, exc>>
    /\ UNCHANGED fault
    /\ UNCHANGED <<singleVars, bodyVars, linkVars, htmlVars>>

\* loads(resp.read()) fails.
LoadsRaises ==
    /\ pc = "loads"
    /\ \E e \in LoadsErrors :
          /\ fault' = [at |-> "loads", kind |-> e]
          /\ exc' = ConnectionError(e)
    /\ pc' = "raised"
    /\ UNCHANGED <<pool, full_headers, proc, idx, values, builds, posts,
                   response_object, result>>
    /\ UNCHANGED <<singleVars, bodyVars, linkVars, htmlVars>>

\* How many pairs zip(self.pool, response_object) yields.
ZipLen(a, b) == Min(Len(a), Len(b))

\* A slip in the pairing: the results are taken from the end of the reply.
ZipItemReversed(k) ==
    LET p == pool[k]
    IN SessionBuildResponse(p, ProcUrl(p), full_headers[p],
                            response_object[Len(response_object) - k + 1])

\* One element of the comprehension of lines 114-117.
ZipItem(k) ==
    LET p == pool[k]
    IN SessionBuildResponse(p, ProcUrl(p), full_headers[p], response_object[k])

BuildResponse ==
    /\ pc = "zip" /\ idx < ZipLen(pool, response_object)
    /\ proc' = pool[idx + 1]
    /\ result' = Append(result, ZipItem(idx + 1))
    /\ idx' = idx + 1
    /\ UNCHANGED <<pool, full_headers, pc, values, builds, posts, response_object, exc>>
    /\ UNCHANGED fault
    /\ UNCHANGED <<singleVars, bodyVars, linkVars, htmlVars>>

\* zip is exhausted: the list is returned.
Return ==
    /\ pc = "zip" /\ idx = ZipLen(pool, response_object)
    /\ pc' = "returned"
    /\ UNCHANGED <<pool, full_headers, proc, idx, values, builds, posts,
                   response_object, result, exc>>
    /\ UNCHANGED fault
    /\ UNCHANGED <<singleVars, bodyVars, linkVars, htmlVars>>

NextPool ==
    \/ BuildRequest \/ BuildRequestRaises \/ EndFor
    \/ PostUnbound \/ PostOk \/ PostRaises
    \/ LoadsOk \/ LoadsRaises
    \/ BuildResponse \/ Return

SpecPool == InitPool /\ [][NextPool]_vars

(***************************************************************************)
(* Properties of the batch path.                                           *)
(***************************************************************************)
PoolDone == pc \in {"returned", "raised"}

\* The last build_request call made for the object at position k of the pool.
LastBuildOf(p) ==
    CHOOSE j \in 1..Len(builds) :
        /\ builds[j].proc = p
        /\ \A m \in (j + 1)..Len(builds) : builds[m].proc # p

\* C1: whenever execute_pool returns normally, the returned list has exactly
\* as many records as the pool has descriptors, whatever the length of the
\* decoded reply.
C1_ExactlyN == pc = "returned" => Len(result) = Len(pool)

\* What the code does instead: zip stops at the shorter of pool and reply.
C1_ZipTruncates ==
    pc = "returned" => Len(result) = Min(Len(pool), Len(response_object))

\* A reply shorter than the pool was zipped and the call returned.
C1_ShortReplyReturned ==
    pc = "returned" /\ Len(response_object) < Len(pool)

\* C2: the k-th submitted payload is the one built from the k-th descriptor,
\* and the k-th returned record is built from the k-th descriptor's url, the
\* header set stored on that descriptor before submission and the k-th raw
\* result of the reply; nothing is reordered, filtered or deduplicated.
C2_Positional ==
    /\ \A n \in 1..Len(posts) :
          /\ Len(builds) = Len(pool)
          /\ posts[n].body = dumps([k \in 1..Len(pool) |->
                                      [method |-> "GET", url |-> ProcUrl(pool[k]),
                                       headers |-> builds[k].headers, of |-> pool[k]]])
          /\ \A k \in 1..Len(pool) : builds[k].proc = pool[k]
    /\ \A k \in 1..Len(result) :
          /\ k <= Len(pool) /\ k <= Len(response_object)
          /\ result[k].url = ProcUrl(pool[k])
          /\ result[k].by = ProcSession(pool[k])
          /\ result[k].headers = builds[LastBuildOf(pool[k])].headers
          /\ result[k].headers = full_headers[pool[k]]
          /\ result[k].data = response_object[k]

\* A pool holding one object twice and two equal descriptors returned three
\* records built from a reply whose results differ.
C2_Witness ==
    /\ pc = "returned" /\ Len(result) = 3
    /\ pool[1] = pool[3] /\ pool[2] # pool[1]
    /\ ProcUrl(pool[2]) = ProcUrl(pool[1])
    /\ response_object[1] # response_object[3]

\* C3: when the post or the decoding of its reply fails, execute_pool raises
\* one ClientException('Connection error') whose cause is the original error;
\* no record is built and none is returned.
C3_AllOrNothing ==
    (fault # NoFault /\ fault.at \in {"post", "loads"}) =>
        /\ pc = "raised"
        /\ exc = [kind |-> "ClientException", msg |-> "Connection error",
                  cause |-> fault.kind]
        /\ result = << >>

\* The decoding of the reply of a post for a pool of several descriptors
\* failed.
C3_Witness ==
    /\ fault # NoFault /\ fault.at = "loads"
    /\ Len(pool) >= 2 /\ Len(posts) = 1 /\ pc = "raised"

\* C4: a call whose payloads were all built makes exactly one post, for every
\* batch size including the empty pool, and the post is made only after
\* build_request completed once for every descriptor, in input order, with
\* each resolved header set stored on its descriptor.
C4_ExactlyOnePost ==
    /\ (PoolDone /\ Len(builds) = Len(pool)) => Len(posts) = 1
    /\ \A n \in 1..Len(posts) :
          /\ Len(builds) = Len(pool)
          /\ \A k \in 1..Len(pool) : builds[k].proc = pool[k]
          /\ \A k \in 1..Len(pool) :
                full_headers[pool[k]] = builds[LastBuildOf(pool[k])].headers

\* The call over the empty pool has ended.
C4_EmptyPoolDone == PoolDone /\ Len(pool) = 0

(***************************************************************************)
(* ProcessResponse: __init__, send, execute_request                        *)
(***************************************************************************)
MaxSends == 2      \* records kept in the history of returned records

\* The sessions a ProcessResponse may belong to, with their `temp` and
\* `browser` attributes.
Sessions == {"t1", "k1", "k2"}
SessionTemp(s)    == s = "t1"
SessionBrowser(s) == IF s \in {"t1", "k1"} THEN "firefox" ELSE "chrome"

\* The arguments of the constructor, by the cases the code tells apart.
FilesArgs   == {"None", "empty", "dict"}      \* files=None, files={}, files={...}
DataArgs    == {"absent", "None", "dict", "str", "list"}
HeadersArgs == {"absent", "None", "dict", "CaseInsensitiveDict"}

Truthy(files)       == files = "dict"          \* `if files:`
IsInstanceDict(obj) == obj = "dict"            \* isinstance(obj, dict)

NoArgs    == [session |-> None, files |-> None, data |-> None, headers |-> None]
NoKwargs  == [data |-> None, headers |-> None, content_type |-> None]
NoError   == [id |-> None, kind |-> None, msg |-> None, cause |-> None]
NoOutcome == [op |-> None, status |-> None, args |-> NoArgs,
              raised |-> NoError, inner |-> NoError]
NoProc    == [session |-> None, kwargs |-> NoKwargs]

\* Lines 43-44: `if data is not None: assert isinstance(data, dict)`.
DataCheckFails(data) == data # "None" /\ ~IsInstanceDict(data)

\* Lines 48-53: the headers the object keeps once Content-Type is set.
HeadersWithContentType(headers) ==
    IF headers = "None" THEN "dict"
    ELSE IF IsInstanceDict(headers) THEN "CaseInsensitiveDict"
    ELSE headers

\* What ProcessResponse.__init__ does with its arguments: the error it raises
\* (NoError when it raises none), the kwargs it keeps, the calls it makes.
Construct(files, data, headers) ==
    IF ~Truthy(files)
    THEN [raised |-> NoError, calls |-> << >>,
          kwargs |-> [data |-> data, headers |-> headers, content_type |-> None]]
    ELSE IF data = "absent" \/ headers = "absent"
    THEN [raised |-> [id |-> "init", kind |-> "KeyError", msg |-> "kwargs", cause |-> None],
          calls |-> << >>, kwargs |-> NoKwargs]
    ELSE IF DataCheckFails(data)
    THEN [raised |-> [id |-> "init", kind |-> "AssertionError",
                      msg |-> "Data must be a dict when files are passed",
                      cause |-> None],
          calls |-> << >>, kwargs |-> NoKwargs]
    ELSE [raised |-> NoError, calls |-> <<"FileUtils.encode_files">>,
          kwargs |-> [data |-> "multipart",
                      headers |-> HeadersWithContentType(headers),
                      content_type |-> "multipart/form-data"]]

InitSingle ==
    /\ sproc = NoProc /\ soutcome = NoOutcome
    /\ srecords = << >> /\ scalls = << >>
    /\ PoolIdle /\ BodyIdle /\ LinkIdle /\ HtmlIdle

\* ProcessResponse(session, method, url, files=..., data=..., headers=...)
New ==
    /\ \E s \in Sessions, files \in FilesArgs, data \in DataArgs, headers \in HeadersArgs :
          LET c == Construct(files, data, headers)
          IN /\ soutcome' = [op |-> "__init__",
                             status |-> IF c.raised = NoError THEN "returned" ELSE "raised",
                             args |-> [session |-> s, files |-> files, data |-> data,
                                       headers |-> headers],
                             raised |-> c.raised, inner |-> NoError]
             /\ sproc' = IF c.raised = NoError
                         THEN [session |-> s, kwargs |-> c.kwargs]
                         ELSE NoProc
             /\ scalls' = c.calls
    /\ UNCHANGED srecords
    /\ UNCHANGED <<poolVars, bodyVars, linkVars, htmlVars>>

\* The errors self.session.execute_request may raise.  ClientException is an
\* IOError (hrequests.exceptions); ValueError stands for every other error.
SessionErrors == {"ClientException", "IOError", "ValueError"}
IsClientException(e) == e.kind = "ClientException"
IsIOError(e)         == e.kind \in {"IOError", "ClientException"}

\* A slip in the mapping: the IOError clause comes first, so a
\* ClientException is wrapped a second time.
MapFailureIOErrorFirst(e) ==
    IF IsIOError(e)
    THEN [id |-> "wrapped", kind |-> "ClientException", msg |-> "Connection error",
          cause |-> e.id]
    ELSE e

\* Lines 73-76: the except clauses of execute_request, in their order.
MapFailure(e) ==
    IF IsClientException(e) THEN e
    ELSE IF IsIOError(e)
    THEN [id |-> "wrapped", kind |-> "ClientException", msg |-> "Connection error",
          cause |-> e.id]
    ELSE e

\* A slip: the session is attached whatever its `temp` says.
RecordSessionAlways(s) == s

\* Line 77: resp.session = None if self.session.temp else self.session
RecordSession(s) == IF SessionTemp(s) THEN None ELSE s

\* send(): the session answers with a record; lines 77-78 and 63 fill it in.
SendReturns ==
    /\ sproc # NoProc /\ Len(srecords) < MaxSends
    /\ \E given \in {None, sproc.session} :
          LET r0 == [owner |-> sproc.session, session |-> given, browser |-> None,
                     elapsed |-> None]
              r1 == [r0 EXCEPT !.session = RecordSession(sproc.session),
                               !.browser = SessionBrowser(sproc.session)]
              r2 == [r1 EXCEPT !.elapsed = "timedelta"]
          IN srecords' = Append(srecords, r2)
    /\ soutcome' = [op |-> "send", status |-> "returned", args |-> NoArgs,
                    raised |-> NoError, inner |-> NoError]
    /\ scalls' = <<"session.execute_request">>
    /\ UNCHANGED sproc
    /\ UNCHANGED <<poolVars, bodyVars, linkVars, htmlVars>>

\* send(): the session raises; execute_request maps the error and it
\* propagates through send.
SendRaises ==
    /\ sproc # NoProc
    /\ \E k \in SessionErrors :
          LET e == [id |-> "session", kind |-> k, msg |-> "from session", cause |-> None]
          IN soutcome' = [op |-> "send", status |-> "raised", args |-> NoArgs,
                          raised |-> MapFailure(e), inner |-> e]
    /\ scalls' = <<"session.execute_request">>
    /\ UNCHANGED <<sproc, srecords>>
    /\ UNCHANGED <<poolVars, bodyVars, linkVars, htmlVars>>

NextSingle == New \/ SendReturns \/ SendRaises

SpecSingle == InitSingle /\ [][NextSingle]_vars

(***************************************************************************)
(* Properties of the single request path.                                  *)
(***************************************************************************)
\* C5: a failure of the session's execute_request surfaces as a new
\* ClientException('Connection error') caused by the original error when that
\* is an IOError and no ClientException, and as the very same exception when
\* it is a ClientException; no record is returned and the session is not
\* called again.
C5_FailureMapping ==
    (soutcome.op = "send" /\ soutcome.inner # NoError) =>
        /\ soutcome.status = "raised"
        /\ scalls = <<"session.execute_request">>
        /\ soutcome.inner.kind = "IOError" =>
              /\ soutcome.raised.kind = "ClientException"
              /\ soutcome.raised.msg = "Connection error"
              /\ soutcome.raised.cause = soutcome.inner.id
              /\ soutcome.raised.id # soutcome.inner.id
        /\ soutcome.inner.kind = "ClientException" =>
              soutcome.raised = soutcome.inner

\* No record is added by a send that raises.
C5_NoRecordOnFailure ==
    [][(soutcome'.op = "send" /\ soutcome'.status = "raised") => srecords' = srecords]_vars

\* The session raised a ClientException during send.
C5_Witness ==
    /\ soutcome.op = "send" /\ soutcome.status = "raised"
    /\ soutcome.inner.kind = "ClientException"

\* C6: with `files` set, construction raises the assertion error exactly when
\* `data` is present, not None and not a mapping, and then neither
\* FileUtils.encode_files nor the session has been called; with `data` absent,
\* None or a mapping the data check does not fail.
C6_DataPrecondition ==
    (soutcome.op = "__init__" /\ Truthy(soutcome.args.files)) =>
        /\ soutcome.raised.kind = "AssertionError"
              <=> soutcome.args.data \notin {"absent", "None", "dict"}
        /\ soutcome.raised.kind = "AssertionError" =>
              /\ soutcome.status = "raised"
              /\ scalls = << >>
              /\ sproc = NoProc
        /\ (soutcome.args.data \in {"None", "dict"} /\ soutcome.args.headers # "absent")
              => /\ soutcome.status = "returned"
                 /\ scalls = <<"FileUtils.encode_files">>

\* What the code does: when kwargs holds both a data and a headers entry, the
\* assertion error is raised exactly when data is neither None nor a dict;
\* a missing entry raises KeyError before the check is reached.
C6_WithBothEntries ==
    (soutcome.op = "__init__" /\ Truthy(soutcome.args.files)) =>
        /\ (soutcome.args.data # "absent" /\ soutcome.args.headers # "absent") =>
              (soutcome.raised.kind = "AssertionError"
                 <=> soutcome.args.data \notin {"None", "dict"})
        /\ (soutcome.args.data = "absent" \/ soutcome.args.headers = "absent") =>
              soutcome.raised.kind = "KeyError"
        /\ soutcome.status = "raised" => (scalls = << >> /\ sproc = NoProc)

\* Construction with files and a str for data raised the assertion error.
C6_Witness ==
    /\ soutcome.op = "__init__" /\ Truthy(soutcome.args.files)
    /\ soutcome.args.data = "str"
    /\ soutcome.raised.kind = "AssertionError"

\* C7: every record returned by execute_request has no session when its
\* owning session is temporary and the owning session otherwise, and carries
\* the session's browser; no returned record refers to a temporary session.
C7_SessionBackReference ==
    \A k \in 1..Len(srecords) :
        /\ srecords[k].session = (IF SessionTemp(srecords[k].owner)
                                  THEN None ELSE srecords[k].owner)
        /\ srecords[k].browser = SessionBrowser(srecords[k].owner)
        /\ ~(srecords[k].session \in Sessions /\ SessionTemp(srecords[k].session))

\* A temporary and a kept session have both returned a record.
C7_Witness ==
    /\ Len(srecords) = 2
    /\ SessionTemp(srecords[1].owner) /\ ~SessionTemp(srecords[2].owner)

(***************************************************************************)
(* build_response, Response.__post_init__, Response.content, Response.text *)
(*                                                                         *)
(* bytes are sequences of byte values, str are sequences of code points,   *)
(* base64 text is a sequence of positions in the base64 alphabet (Pad for  *)
(* '=').                                                                   *)
(***************************************************************************)
MaxBody == 3       \* longest body, in bytes / characters

ByteVals == {65, 169, 195, 233}     \* 'A', 0xA9, 0xC3, 0xE9
CharVals == {65, 233}               \* 'A', U+00E9
Pad == 64
\* The outcomes of chardet.detect(raw)['encoding'].
Detected == {"UTF-8", "ASCII", "ISO-8859-1", None}
\* The raw header lists of the one header of the model, X-Foo.
HeaderLists == {<< >>, <<"a">>, <<"a", "b">>}

Bytes(v)   == [type |-> "bytes", v |-> v, err |-> None]
Str(v)     == [type |-> "str", v |-> v, err |-> None]
Raised(e)  == [type |-> "error", v |-> << >>, err |-> e]
NotAccessed == [type |-> "unset", v |-> << >>, err |-> None]

\* base64.b64encode, three bytes at a time (what the executor sends).
RECURSIVE b64encode(_)
b64encode(bs) ==
    IF Len(bs) = 0 THEN << >>
    ELSE IF Len(bs) = 1
    THEN <<bs[1] \div 4, (bs[1] % 4) * 16, Pad, Pad>>
    ELSE IF Len(bs) = 2
    THEN <<bs[1] \div 4, (bs[1] % 4) * 16 + (bs[2] \div 16), (bs[2] % 16) * 4, Pad>>
    ELSE <<bs[1] \div 4, (bs[1] % 4) * 16 + (bs[2] \div 16),
           (bs[2] % 16) * 4 + (bs[3] \div 64), bs[3] % 64>>
         \o b64encode(SubSeq(bs, 4, Len(bs)))

\* base64.b64decode of padded text, four characters at a time.
RECURSIVE b64decode(_)
b64decode(t) ==
    IF Len(t) = 0 THEN << >>
    ELSE LET b1 == t[1] * 4 + (t[2] \div 16)
             b2 == (t[2] % 16) * 16 + (t[3] \div 4)
             b3 == (t[3] % 4) * 64 + t[4]
         IN IF t[3] = Pad THEN <<b1>>
            ELSE IF t[4] = Pad THEN <<b1, b2>>
            ELSE <<b1, b2, b3>> \o b64decode(SubSeq(t, 5, Len(t)))

IsCont(b) == b >= 128 /\ b <= 191          \* a UTF-8 continuation byte

\* bytes.decode('UTF-8'): the code points, or <<-1>> on invalid input.
RECURSIVE utf8_decode(_)
utf8_decode(bs) ==
    IF Len(bs) = 0 THEN << >>
    ELSE LET b == bs[1]
             n == IF b < 128 THEN 1
                  ELSE IF b >= 194 /\ b <= 223 THEN 2
                  ELSE IF b >= 224 /\ b <= 239 THEN 3
                  ELSE IF b >= 240 /\ b <= 244 THEN 4
                  ELSE 0
         IN IF n = 0 \/ Len(bs) < n THEN <<-1>>
            ELSE IF \E k \in 2..n : ~IsCont(bs[k]) THEN <<-1>>
            ELSE LET c == IF n = 1 THEN b
                          ELSE IF n = 2 THEN (b - 192) * 64 + (bs[2] - 128)
                          ELSE IF n = 3
                          THEN (b - 224) * 4096 + (bs[2] - 128) * 64 + (bs[3] - 128)
                          ELSE (b - 240) * 262144 + (bs[2] - 128) * 4096
                               + (bs[3] - 128) * 64 + (bs[4] - 128)
                     bad == \/ (n = 3 /\ c < 2048)
                            \/ (n = 3 /\ c >= 55296 /\ c <= 57343)
                            \/ (n = 4 /\ (c < 65536 \/ c > 1114111))
                     rest == utf8_decode(SubSeq(bs, n + 1, Len(bs)))
                 IN IF bad \/ rest = <<-1>> THEN <<-1>> ELSE <<c>> \o rest

\* str.encode('UTF-8'): the bytes, or <<-1>> for a lone surrogate.
RECURSIVE utf8_encode(_)
utf8_encode(cs) ==
    IF Len(cs) = 0 THEN << >>
    ELSE LET c == cs[1]
             rest == utf8_encode(Tail(cs))
             enc == IF c < 128 THEN <<c>>
                    ELSE IF c < 2048 THEN <<192 + (c \div 64), 128 + (c % 64)>>
                    ELSE IF c >= 55296 /\ c <= 57343 THEN <<-1>>
                    ELSE IF c < 65536
                    THEN <<224 + (c \div 4096), 128 + ((c \div 64) % 64), 128 + (c % 64)>>
                    ELSE <<240 + (c \div 262144), 128 + ((c \div 4096) % 64),
                           128 + ((c \div 64) % 64), 128 + (c % 64)>>
         IN IF enc = <<-1>> \/ rest = <<-1>> THEN <<-1>> ELSE enc \o rest

\* A one-byte codec (ASCII below 128, ISO-8859-1 below 256), both directions.
Limit(encoding) == IF encoding = "ASCII" THEN 128 ELSE 256
OneByteCodec(xs, encoding) ==
    IF \E k \in 1..Len(xs) : xs[k] >= Limit(encoding) THEN <<-1>> ELSE xs

\* bytes.decode(encoding)
decode(bs, encoding) ==
    IF encoding = None THEN Raised("TypeError")
    ELSE LET cs == IF encoding = "UTF-8" THEN utf8_decode(bs)
                   ELSE OneByteCodec(bs, encoding)
         IN IF cs = <<-1>> THEN Raised("UnicodeDecodeError") ELSE Str(cs)

\* str.encode(encoding)
encode(cs, encoding) ==
    IF encoding = None THEN Raised("TypeError")
    ELSE LET bs == IF encoding = "UTF-8" THEN utf8_encode(cs)
                   ELSE OneByteCodec(cs, encoding)
         IN IF bs = <<-1>> THEN Raised("UnicodeEncodeError") ELSE Bytes(bs)

\* Lines 282-285: a header with one value becomes the value, any other the list.
FlattenHeader(header_value) ==
    IF Len(header_value) = 1
    THEN [scalar |-> TRUE, v |-> <<header_value[1]>>]
    ELSE [scalar |-> FALSE, v |-> header_value]

FlattenHeaders(h) ==
    IF h.none THEN [empty |-> TRUE, xfoo |-> FlattenHeader(<< >>)]
    ELSE [empty |-> FALSE, xfoo |-> FlattenHeader(h.xfoo)]

\* Lines 159-161: the encoding the record keeps, given the detector's answer.
PostInitEncoding(raw, detected) ==
    IF raw.type = "bytes" THEN detected ELSE "UTF-8"

\* build_response(res, res_cookies), with the detector's answer.
build_response(r, detected) ==
    LET raw == IF r.isBase64 THEN Bytes(b64decode(r.body)) ELSE Str(r.body)
    IN [url |-> r.target, status_code |-> r.status,
        headers |-> FlattenHeaders(r.headers),
        raw |-> raw, encoding |-> PostInitEncoding(raw, detected),
        is_utf8 |-> ~r.isBase64]

\* Response.content
content(self) ==
    IF self.raw.type = "bytes" THEN self.raw ELSE encode(self.raw.v, self.encoding)

\* Response.text
text(self) ==
    IF self.raw.type = "str" THEN self.raw ELSE decode(self.raw.v, self.encoding)

NoRes  == [target |-> None, status |-> 0, isBase64 |-> FALSE, body |-> << >>,
           headers |-> [none |-> TRUE, xfoo |-> << >>], built |-> FALSE]
NoResp == [url |-> None]
NoView == [content |-> NotAccessed, text |-> NotAccessed, reads |-> 0]

RawResults ==
    {[target |-> "http://a", status |-> 200, isBase64 |-> b64, body |-> b,
      headers |-> h, built |-> FALSE] :
        b64 \in {TRUE}, b \in {b64encode(bs) : bs \in SeqsUpTo(ByteVals, MaxBody)},
        h \in {[none |-> TRUE, xfoo |-> << >>]}}
    \cup
    {[target |-> "http://a", status |-> 200, isBase64 |-> b64, body |-> b,
      headers |-> h, built |-> FALSE] :
        b64 \in {FALSE}, b \in SeqsUpTo(CharVals, MaxBody),
        h \in {[none |-> TRUE, xfoo |-> << >>]} \cup
              {[none |-> FALSE, xfoo |-> l] : l \in HeaderLists}}

InitBody ==
    /\ res \in RawResults
    /\ resp = NoResp /\ view = NoView
    /\ PoolIdle /\ SingleIdle /\ LinkIdle /\ HtmlIdle

\* build_response(res, cookies): the record is built, the detector answers.
BuildResponseRecord ==
    /\ ~res.built
    /\ \E detected \in Detected :
          resp' = build_response(res, detected)
    /\ res' = [res EXCEPT !.built = TRUE]
    /\ UNCHANGED view
    /\ UNCHANGED <<poolVars, singleVars, linkVars, htmlVars>>

\* An access of resp.content.
AccessContent ==
    /\ res.built /\ view.reads < 2
    /\ view' = [view EXCEPT !.content = content(resp), !.reads = @ + 1]
    /\ UNCHANGED <<res, resp>>
    /\ UNCHANGED <<poolVars, singleVars, linkVars, htmlVars>>

\* An access of resp.text.
AccessText ==
    /\ res.built /\ view.reads < 2
    /\ view' = [view EXCEPT !.text = text(resp), !.reads = @ + 1]
    /\ UNCHANGED <<res, resp>>
    /\ UNCHANGED <<poolVars, singleVars, linkVars, htmlVars>>

NextBody == BuildResponseRecord \/ AccessContent \/ AccessText

SpecBody == InitBody /\ [][NextBody]_vars

(***************************************************************************)
(* Properties of the body accessors.                                       *)
(***************************************************************************)
\* C8: for a record built from a bytes body, whatever the detector answered,
\* `content` and `text` are inverses under the record's encoding: decoding
\* content gives text, encoding text gives content.
C8_ContentTextInverse ==
    (resp # NoResp /\ res.isBase64
       /\ view.content # NotAccessed /\ view.text # NotAccessed) =>
        /\ view.content.type = "bytes"
        /\ view.text.type = "str"
        /\ decode(view.content.v, resp.encoding) = view.text
        /\ encode(view.text.v, resp.encoding) = view.content

\* The body b'' was decoded from base64, the detector reported no encoding,
\* and both accessors were read.
C8_NoEncodingAccessed ==
    /\ resp # NoResp /\ res.isBase64 /\ resp.raw = Bytes(<< >>)
    /\ resp.encoding = None
    /\ view.content # NotAccessed /\ view.text = Raised("TypeError")

\* What the code guarantees: content of a bytes record is the stored body,
\* and text is its decoding when the detector named a codec the body is
\* valid in.
C8_BytesViews ==
    (resp # NoResp /\ res.isBase64) =>
        /\ resp.raw = Bytes(b64decode(res.body))
        /\ ~resp.is_utf8
        /\ view.content # NotAccessed => view.content = resp.raw
        /\ (view.text # NotAccessed /\ view.text.type = "str") =>
              resp.encoding # None

(***************************************************************************)
(* parse_header_links                                                      *)
(*                                                                         *)
(* A str is a sequence of one-character strings; a link (a dict) is a      *)
(* function from keys to values.                                           *)
(***************************************************************************)
MaxTokens == 4     \* longest header, in tokens

\* The pieces headers are made of.
Tokens == { <<"<", "a", ">">>, <<",", " ", "<", "b", ">">>, <<";">>,
            <<"r", "=", "x">>, <<"=", "y">>, <<"t">>, <<" ">>, <<"\"">> }

RECURSIVE Concat(_)
Concat(ts) == IF Len(ts) = 0 THEN << >> ELSE Head(ts) \o Concat(Tail(ts))

Headers == {Concat(ts) : ts \in SeqsUpTo(Tokens, MaxTokens)}

replace_chars == {" ", "'", "\""}          \* " '\""
url_chars     == {"<", ">", " ", "'", "\""} \* "<> '\""
UrlKey        == <<"u", "r", "l">>

\* str.strip(chars)
RECURSIVE lstrip(_, _)
lstrip(str, chars) ==
    IF Len(str) > 0 /\ Head(str) \in chars THEN lstrip(Tail(str), chars) ELSE str
RECURSIVE rstrip(_, _)
rstrip(str, chars) ==
    IF Len(str) > 0 /\ str[Len(str)] \in chars
    THEN rstrip(SubSeq(str, 1, Len(str) - 1), chars) ELSE str
strip(str, chars) == rstrip(lstrip(str, chars), chars)

\* The positions i, j of a match of the pattern ", *<" in str: a comma at i,
\* spaces only between, '<' at j.
IsMatch(str, i, j) ==
    /\ i < j /\ j <= Len(str)
    /\ str[i] = "," /\ str[j] = "<"
    /\ \A k \in (i + 1)..(j - 1) : str[k] = " "

\* re.split(", *<", str)
RECURSIVE re_split(_)
re_split(str) ==
    LET starts == {i \in 1..Len(str) : \E j \in 1..Len(str) : IsMatch(str, i, j)}
    IN IF starts = {} THEN <<str>>
       ELSE LET i == CHOOSE x \in starts : \A y \in starts : x <= y
                j == CHOOSE y \in 1..Len(str) : IsMatch(str, i, y)
            IN <<SubSeq(str, 1, i - 1)>> \o re_split(SubSeq(str, j + 1, Len(str)))

\* The positions of the separator sep in str.
Occurrences(str, sep) == {i \in 1..Len(str) : str[i] = sep}

\* str.split(sep): the pieces between all occurrences of sep.
RECURSIVE split(_, _)
split(str, sep) ==
    IF Occurrences(str, sep) = {} THEN <<str>>
    ELSE LET i == CHOOSE x \in Occurrences(str, sep) :
                      \A y \in Occurrences(str, sep) : x <= y
         IN <<SubSeq(str, 1, i - 1)>> \o split(SubSeq(str, i + 1, Len(str)), sep)

\* str.split(sep, 1): at most one split, at the first occurrence.
split1(str, sep) ==
    IF Occurrences(str, sep) = {} THEN <<str>>
    ELSE LET i == CHOOSE x \in Occurrences(str, sep) :
                      \A y \in Occurrences(str, sep) : x <= y
         IN <<SubSeq(str, 1, i - 1), SubSeq(str, i + 1, Len(str))>>

\* link[key] = value
SetItem(link, key, value) ==
    [k \in DOMAIN link \cup {key} |-> IF k = key THEN value ELSE link[k]]

\* Line 268: `key, value = param.split("=")` unpacks the pieces of the split;
\* any number of pieces other than two raises ValueError.
KeyValue(param) == split(param, "=")

\* Lines 266-271: the parameters, folded into the link until the first one
\* that does not unpack.
RECURSIVE AddParams(_, _)
AddParams(link, params) ==
    IF Len(params) = 0 THEN link
    ELSE LET kv == KeyValue(Head(params))
         IN IF Len(kv) # 2 THEN link
            ELSE AddParams(SetItem(link, strip(kv[1], replace_chars),
                                         strip(kv[2], replace_chars)),
                           Tail(params))

\* Lines 261-272: the link of one entry.
ParseEntry(val) ==
    LET parts  == split1(val, ";")
        url    == parts[1]
        params == IF Len(parts) = 2 THEN parts[2] ELSE << >>
    IN AddParams([k \in {UrlKey} |-> strip(url, url_chars)], split(params, ";"))

\* parse_header_links(value)
parse_header_links(value) ==
    LET stripped == strip(value, replace_chars)
        vals     == re_split(stripped)
    IN IF Len(stripped) = 0 THEN << >>
       ELSE [i \in 1..Len(vals) |-> ParseEntry(vals[i])]

NotParsed == [called |-> FALSE, list |-> << >>]

InitLinks ==
    /\ header \in Headers
    /\ links = NotParsed
    /\ PoolIdle /\ SingleIdle /\ BodyIdle /\ HtmlIdle

\* parse_header_links(header) is called.
ParseHeaderLinks ==
    /\ ~links.called
    /\ links' = [called |-> TRUE, list |-> parse_header_links(header)]
    /\ UNCHANGED header
    /\ UNCHANGED <<poolVars, singleVars, bodyVars, htmlVars>>

NextLinks == ParseHeaderLinks

SpecLinks == InitLinks /\ [][NextLinks]_vars

(***************************************************************************)
(* Properties of parse_header_links.                                       *)
(***************************************************************************)
\* The entries of a header and the parameter segments of an entry.
EntriesOf(value) == re_split(strip(value, replace_chars))
SegmentsOf(val) ==
    IF Occurrences(val, ";") = {} THEN <<<< >>>> ELSE split(split1(val, ";")[2], ";")
HasEq(seg) == Occurrences(seg, "=") # {}
\* How many segments precede the first segment with no '='.
Kept(segs) ==
    IF \E n \in 1..Len(segs) : ~HasEq(segs[n])
    THEN (CHOOSE n \in 1..Len(segs) :
             ~HasEq(segs[n]) /\ \A m \in 1..(n - 1) : HasEq(segs[m])) - 1
    ELSE Len(segs)
\* The key / value of a segment split at its first '='.
KeyOf(seg)   == strip(split1(seg, "=")[1], replace_chars)
ValueOf(seg) == strip(split1(seg, "=")[2], replace_chars)
\* The last kept segment that sets key k, if any.
Setters(segs, k) == {n \in 1..Kept(segs) : KeyOf(segs[n]) = k}
LastSetter(segs, k) ==
    CHOOSE n \in Setters(segs, k) : \A m \in Setters(segs, k) : m <= n

\* C9: every entry of the header yields a record with the entry's url and one
\* key/value pair for each parameter segment before the first segment with
\* no '=', each segment split at its first '='; a segment with no '=' only
\* ends the parameters of its entry.
C9_ParamsSplitAtFirstEq ==
    (links.called /\ Len(strip(header, replace_chars)) > 0) =>
        LET entries == EntriesOf(header)
        IN /\ Len(links.list) = Len(entries)
           /\ \A i \in 1..Len(entries) :
                 LET segs == SegmentsOf(entries[i])
                     keys == {KeyOf(segs[n]) : n \in 1..Kept(segs)}
                 IN /\ DOMAIN links.list[i] = {UrlKey} \cup keys
                    /\ \A k \in keys :
                          links.list[i][k] = ValueOf(segs[LastSetter(segs, k)])
                    /\ UrlKey \notin keys =>
                          links.list[i][UrlKey] = strip(split1(entries[i], ";")[1], url_chars)

\* A header whose entry has a parameter with two '=' was parsed.
C9_TwoEqParsed ==
    /\ links.called
    /\ header = <<"<", "a", ">", ";", "r", "=", "x", "=", "y">>

\* What the code does: a parameter is kept only when it holds exactly one
\* '='; the first parameter with none or several ends the entry.
C9_ParamsWithOneEq ==
    (links.called /\ Len(strip(header, replace_chars)) > 0) =>
        LET entries == EntriesOf(header)
        IN /\ Len(links.list) = Len(entries)
           /\ \A i \in 1..Len(entries) :
                 LET segs == SegmentsOf(entries[i])
                     OneEq(seg) == Cardinality(Occurrences(seg, "=")) = 1
                     kept == IF \E n \in 1..Len(segs) : ~OneEq(segs[n])
                             THEN (CHOOSE n \in 1..Len(segs) :
                                      ~OneEq(segs[n])
                                      /\ \A m \in 1..(n - 1) : OneEq(segs[m])) - 1
                             ELSE Len(segs)
                 IN DOMAIN links.list[i] = {UrlKey} \cup {KeyOf(segs[n]) : n \in 1..kept}

(***************************************************************************)
(* Response.html, Response.find, Response.find_all                         *)
(*                                                                         *)
(* HTML objects are numbered in the order of their construction; NoHtml    *)
(* stands for the missing '_html' entry of the record's __dict__.          *)
(***************************************************************************)
MaxAccess == 4     \* accesses made on one record

NoHtml == 0

\* `not self.__dict__.get('_html')`: a missing entry is falsy, an HTML object
\* (a plain object, with no __bool__ or __len__) is truthy.
Falsy(obj) == obj = NoHtml

\* A slip in the memoization: the object built is returned but not kept.
HtmlNotKept(cache, built) ==
    IF Falsy(cache)
    THEN [cache |-> cache, built |-> built + 1, value |-> built + 1]
    ELSE [cache |-> cache, built |-> built, value |-> cache]

\* Lines 181-185: the html property, from the cache and the number of HTML
\* objects built so far to the new cache, the new number and the value.
Html(cache, built) ==
    IF Falsy(cache)
    THEN [cache |-> built + 1, built |-> built + 1, value |-> built + 1]
    ELSE [cache |-> cache, built |-> built, value |-> cache]

InitHtml ==
    /\ hcache = NoHtml /\ hbuilt = 0 /\ hlog = << >>
    /\ PoolIdle /\ SingleIdle /\ BodyIdle /\ LinkIdle

\* An access of attribute attr, which is html or goes through self.html.
Access(attr) ==
    /\ Len(hlog) < MaxAccess
    /\ LET h == Html(hcache, hbuilt)
       IN /\ hcache' = h.cache
          /\ hbuilt' = h.built
          /\ hlog' = Append(hlog, [attr |-> attr, of |-> h.value])
    /\ UNCHANGED <<poolVars, singleVars, bodyVars, linkVars>>

AccessHtml    == Access("html")
AccessFind    == Access("find")
AccessFindAll == Access("find_all")

NextHtml == AccessHtml \/ AccessFind \/ AccessFindAll

SpecHtml == InitHtml /\ [][NextHtml]_vars

(***************************************************************************)
(* Properties of the memoized parser object.                               *)
(***************************************************************************)
\* C10: over any sequence of html, find and find_all accesses on one record
\* the HTML object is constructed exactly once, on the first access, and
\* every later access gets that same object.
C10_BuiltOnce ==
    /\ hlog = << >> => (hbuilt = 0 /\ Falsy(hcache))
    /\ hlog # << >> =>
          /\ hbuilt = 1
          /\ hcache = hlog[1].of /\ ~Falsy(hcache)
          /\ \A k \in 1..Len(hlog) : hlog[k].of = hlog[1].of

\* The object is never replaced once it is cached.
C10_CacheStable == [][~Falsy(hcache) => hcache' = hcache]_vars

\* html, find and find_all were each accessed, find first.
C10_Witness ==
    /\ Len(hlog) >= 3 /\ hlog[1].attr = "find"
    /\ {hlog[k].attr : k \in 1..Len(hlog)} = {"html", "find", "find_all"}

====
